---- MODULE Spec2Model ----
(***************************************************************************)
(* A model of the sqlx migrator of joncalhoun/migrate (src/sqlx.go).       *)
(*                                                                         *)
(* The database is the committed state (the migrations table and the      *)
(* schema changes made by the steps) plus, per runner, the writes pending  *)
(* in its open transaction.  Migrate and Rollback are modelled statement   *)
(* by statement; every database statement may succeed, fail for a reason   *)
(* the database decides (duplicate key, table already there, table not     *)
(* there) or fail for an outside reason (an injected fault).               *)
(*                                                                         *)
(* src/sqlx.go holds two variants of the migrator: the current one (with   *)
(* Rollback, lines 1-212) and an earlier one (Migrate only, lines          *)
(* 214-349).  A behaviour runs one of them.                                *)
(*                                                                         *)
(* Three specifications: Spec (one runner, calls one after the other, a    *)
(* registry that only grows), SpecFrame (Spec with a caller that also      *)
(* drops applied steps from the registry) and SpecConc (two runners, each  *)
(* calling Migrate once, statements interleaved).                          *)
(***************************************************************************)
EXTENDS Integers, Sequences, FiniteSets, TLC

\* Bounds of the model.
NumIds == 2
MaxCalls == 3
MaxFaults == 1

Ids == 1..NumIds
Runners == {"r1", "r2"}
\* The runner of the sequential specification.
SeqRunners == {"r1"}

VARIABLES
    variant,      \* "current" or "earlier": which variant of src/sqlx.go runs
    Migrations,   \* the registry the caller has built (Sqlx.Migrations)
    tableExists,  \* committed: the migrations table exists
    tracker,      \* committed: the ids in the migrations table
    schema,       \* committed: the ids whose step effects are present
    run,          \* per runner: the call in progress (op, reg, idx, pc, tx, ret)
    hist,         \* per runner: what the call has done so far
    prev,         \* the call completed before the latest one
    prev2,        \* the call completed before prev
    calls,        \* number of calls started
    faults        \* number of injected faults

vars == <<variant, Migrations, tableExists, tracker, schema, run, hist,
          prev, prev2, calls, faults>>

db == <<tableExists, tracker, schema>>

-----------------------------------------------------------------------------
(* Steps and registries *)

\* SqlxQueryMigration / SqlxFileMigration of the current variant: an empty
\* text for a direction gives a nil function for that direction.
SqlxQueryMigration(id, upQuery, downQuery) ==
    [ID |-> id, Migrate |-> upQuery # "", Rollback |-> downQuery # ""]

\* SqlxQueryMigration / SqlxFileMigration of the earlier variant: the step has
\* no Rollback field and Migrate is always a closure.
SqlxQueryMigrationV1(id, query) ==
    [ID |-> id, Migrate |-> TRUE, Rollback |-> FALSE]

Queries == {"", "sql"}

StepsOf(v) ==
    IF v = "current"
    THEN {SqlxQueryMigration(id, u, d) : id \in Ids, u \in Queries, d \in Queries}
    ELSE {SqlxQueryMigrationV1(id, "sql") : id \in Ids}

RegIds(reg) == {reg[k].ID : k \in DOMAIN reg}

\* The operations a variant offers.
OpsOf(v) == IF v = "current" THEN {"Migrate", "Rollback"} ELSE {"Migrate"}

-----------------------------------------------------------------------------
(* The code's decisions, as operators *)

\* Mutants of MigrateLookup: the found row is ignored; the cases are swapped.
MigrateLookupIgnoresFound(found) == "run"
MigrateLookupSwapped(found) == IF found THEN "run" ELSE "skip"

\* Migrate's switch on the lookup's error: ErrNoRows -> run, nil -> skip.
MigrateLookup(found) == IF found THEN "skip" ELSE "run"

\* Mutant of RollbackLookup: the cases are swapped.
RollbackLookupSwapped(found) == IF found THEN "skip" ELSE "run"

\* Rollback's switch on the lookup's error: ErrNoRows -> skip, nil -> run.
RollbackLookup(found) == IF found THEN "run" ELSE "skip"

LookupDecision(o, found) ==
    IF o = "Migrate" THEN MigrateLookup(found) ELSE RollbackLookup(found)

\* Mutant of RollbackProvided: the nil check is missing.
RollbackNilCheckMissing(m) == TRUE

\* Rollback's `if m.Rollback == nil { continue }`.
RollbackProvided(m) == m.Rollback

\* Mutant of RangeMigrations: the steps are ranged over in the order of their
\* ids.
RangeSortedByID(reg) ==
    [k \in DOMAIN reg |->
        CHOOSE m \in {reg[j] : j \in DOMAIN reg} :
            Cardinality({j \in DOMAIN reg : reg[j].ID < m.ID}) = k - 1]

\* s.Migrations as the loops walk it: the slice as the caller declared it.
RangeMigrations(reg) == reg

\* Mutants of FirstIdx: Rollback starts one step short of the end; Rollback
\* starts at the front.
FirstIdxOneShort(o, reg) == IF o = "Migrate" THEN 1 ELSE Len(reg) - 1
FirstIdxAtFront(o, reg) == 1

\* The loop headers: Migrate ranges forward, Rollback walks i from len-1 to 0.
FirstIdx(o, reg) == IF o = "Migrate" THEN 1 ELSE Len(reg)
NextIdx(o, k) == IF o = "Migrate" THEN k + 1 ELSE k - 1
InRange(reg, k) == k \in DOMAIN reg

\* Mutant of LookupErr: an error of the lookup is taken for sql.ErrNoRows.
LookupErrAsNoRows(o) == IF o = "Migrate" THEN "run" ELSE "skip"

\* The `default:` case of the switch on the error of db.Get.
LookupErr(o) == "abort"

\* Mutant of CreateErrReturns: the error of createMigrationTable is ignored.
CreateErrIgnored(o) == FALSE

\* `if err != nil { return err }` after s.createMigrationTable(db).
CreateErrReturns(o) == TRUE

\* Mutant of RunErrReturns: the error of the run is dropped.
RunErrDropped(o) == FALSE

\* `if err != nil { return err }` after runMigration / runRollback.
RunErrReturns(o) == TRUE

\* Mutant of ExecHandle: every bookkeeping statement goes to db.Exec.
ExecHandleAlwaysDb(v, o) == "db"

\* The handle the bookkeeping statement is executed on: the transaction, but
\* the earlier variant's runMigration calls db.Exec, outside the transaction.
ExecHandle(v, o) == IF v = "earlier" /\ o = "Migrate" THEN "db" ELSE "tx"

\* Mutant of RowStatement: the DELETE has no WHERE clause.
RowStatementDeletesAll(o, rows, id) ==
    IF o = "Migrate" THEN rows \cup {id} ELSE {}

\* Mutant of RowStatement: the DELETE matches no row.
RowStatementDeletesNothing(o, rows, id) ==
    IF o = "Migrate" THEN rows \cup {id} ELSE rows

\* The bookkeeping statement: INSERT INTO migrations / DELETE FROM migrations.
RowStatement(o, rows, id) ==
    IF o = "Migrate" THEN rows \cup {id} ELSE rows \ {id}

\* Mutant of RowRejected: the table has no primary key.
RowNeverRejected(o, rows, id) == FALSE

\* INSERT fails on the primary key when the row is there; DELETE of an absent
\* row deletes nothing and succeeds.
RowRejected(o, rows, id) == o = "Migrate" /\ id \in rows

\* The function of the step the operation calls: m.Migrate or m.Rollback.
StepFunc(o, m) == IF o = "Migrate" THEN m.Migrate ELSE m.Rollback

\* The step's statement, as in the tests: CREATE TABLE t / DROP TABLE t.
StepStatement(o, sch, id) ==
    IF o = "Migrate" THEN sch \cup {id} ELSE sch \ {id}

\* CREATE TABLE fails when the table is there, DROP TABLE when it is not.
StepRejected(o, sch, id) ==
    IF o = "Migrate" THEN id \in sch ELSE id \notin sch

-----------------------------------------------------------------------------
(* State *)

\* A transaction: whether it is open, and which of its two statements (the
\* bookkeeping row, the step's statement) are pending in it.
NoTx == [open |-> FALSE, row |-> FALSE, act |-> FALSE]

IdleRun == [op |-> "none", reg |-> <<>>, idx |-> 0, pc |-> "idle",
            tx |-> NoTx, ret |-> "none"]

NoHist == [decl |-> <<>>, created |-> FALSE, absent |-> <<>>, rows |-> <<>>, t0 |-> {}, s0 |-> {}, pt |-> {}, ps |-> {},
           looked |-> <<>>, ran |-> <<>>, committed |-> <<>>,
           failIdx |-> 0, phase |-> "none", faulted |-> FALSE,
           dup |-> FALSE]

NoCall == [op |-> "none", reg |-> <<>>, ret |-> "none",
           t0 |-> {}, s0 |-> {}, ran |-> <<>>, faulted |-> FALSE]

\* What is kept of a completed call.
Summary(c, h) == [op |-> c.op, reg |-> c.reg, ret |-> c.ret,
                  t0 |-> h.t0, s0 |-> h.s0, ran |-> h.ran,
                  faulted |-> h.faulted]

Init ==
    /\ variant \in {"current", "earlier"}
    /\ Migrations = <<>>
    /\ tableExists = FALSE
    /\ tracker = {}
    /\ schema = {}
    /\ run = [r \in Runners |-> IdleRun]
    /\ hist = [r \in Runners |-> NoHist]
    /\ prev = NoCall
    /\ prev2 = NoCall
    /\ calls = 0
    /\ faults = 0

Idle(r) == run[r].pc \in {"idle", "done"}

\* The step the loop of runner r is at.
Cur(r) == run[r].reg[run[r].idx]

CanFault == faults < MaxFaults

\* The rows inserted by the open transactions of the runners other than r:
\* not yet committed, but holding their primary keys.
PendingRows(r) ==
    {run[q].reg[run[q].idx].ID :
        q \in {p \in Runners \ {r} : /\ run[p].pc \in {"action", "commit"}
                                      /\ run[p].op = "Migrate"
                                      /\ run[p].tx.row}}

-----------------------------------------------------------------------------
(* Record updates shared by the statements *)

\* Mutant of TxRollback: tx.Rollback() is not called.
TxRollbackMissing(t) == t

\* tx.Rollback(): the pending writes are dropped.
TxRollback(t) == NoTx

\* tx.Commit() applied to the committed rows / schema.
CommitRows(o, t, rows, id) == IF t.row THEN RowStatement(o, rows, id) ELSE rows
CommitSchema(o, t, sch, id) == IF t.act THEN StepStatement(o, sch, id) ELSE sch

\* `return err`, `return nil`, or a panic leaving the call.
Returned(c, ret) == [c EXCEPT !.pc = "done", !.ret = ret]

\* After runMigration / runRollback returned an error to the loop.
AfterRunErr(c) ==
    IF RunErrReturns(c.op)
    THEN Returned(c, "err")
    ELSE [c EXCEPT !.pc = "loop", !.idx = NextIdx(c.op, c.idx)]

\* After runMigration / runRollback returned nil to the loop.
AfterRunOk(c) == [c EXCEPT !.pc = "loop", !.idx = NextIdx(c.op, c.idx)]

\* History: a failure at step k in phase ph (flt: injected; dp: the database
\* rejected a duplicate row, an existing table or a missing table).
Failed(h, k, ph, flt, dp) ==
    [h EXCEPT !.failIdx = k, !.phase = ph,
              !.faulted = @ \/ flt, !.dup = @ \/ dp]

-----------------------------------------------------------------------------
(* The caller *)

\* The ids a caller may give the next step of the registry.  Ids are names and
\* the code never compares two of them, so the caller numbers its steps either
\* upward from 1 or downward from NumIds: every other numbering is a renaming
\* of one of these, and both the sorted and the unsorted order occur.
FreshIds(reg) ==
    IF reg = <<>> THEN {1, NumIds}
    ELSE IF reg[1].ID = 1 /\ (Len(reg) = 1 \/ reg[2].ID = 2)
         THEN {reg[Len(reg)].ID + 1} \cap Ids
         ELSE {reg[Len(reg)].ID - 1} \cap Ids

\* The caller appends a step to the registry between calls; the new step has
\* an id that names no step of the registry and no record of the tracker.
AppendStep(m) ==
    /\ \A r \in Runners : Idle(r)
    /\ calls < MaxCalls
    /\ m \in StepsOf(variant)
    /\ m.ID \in FreshIds(Migrations) \ (RegIds(Migrations) \cup tracker)
    /\ Migrations' = Append(Migrations, m)
    /\ UNCHANGED <<variant, db, run, hist, prev, prev2, calls, faults>>

\* The caller drops the first step of the registry between calls although the
\* step is applied: its record stays in the tracker of the database.
DropStep ==
    /\ \A r \in Runners : Idle(r)
    /\ calls < MaxCalls
    /\ Migrations # <<>>
    /\ Migrations[1].ID \in tracker
    /\ Migrations' = Tail(Migrations)
    /\ UNCHANGED <<variant, db, run, hist, prev, prev2, calls, faults>>

\* The caller calls Migrate or Rollback on the registry.
Call(r, o) ==
    /\ Idle(r)
    /\ calls < MaxCalls
    /\ o \in OpsOf(variant)
    /\ run' = [run EXCEPT ![r] = [IdleRun EXCEPT !.op = o,
                                                !.reg = RangeMigrations(Migrations),
                                                !.pc = "create"]]
    /\ hist' = [hist EXCEPT ![r] = [NoHist EXCEPT !.decl = Migrations,
                                                !.t0 = tracker, !.s0 = schema]]
    /\ prev' = IF run[r].op = "none" THEN prev ELSE Summary(run[r], hist[r])
    /\ prev2' = IF run[r].op = "none" THEN prev2 ELSE prev
    /\ calls' = calls + 1
    /\ UNCHANGED <<variant, Migrations, db, faults>>

-----------------------------------------------------------------------------
(* Migrate / Rollback, statement by statement *)

\* createMigrationTable: CREATE TABLE IF NOT EXISTS migrations.
createMigrationTable(r) ==
    /\ run[r].pc = "create"
    /\ tableExists' = TRUE
    /\ run' = [run EXCEPT ![r] = [@ EXCEPT !.pc = "loop",
                                          !.idx = FirstIdx(run[r].op, run[r].reg)]]
    /\ hist' = [hist EXCEPT ![r] = [@ EXCEPT !.created = TRUE]]
    /\ UNCHANGED <<variant, Migrations, tracker, schema, prev, prev2,
                   calls, faults>>

createMigrationTableErr(r) ==
    /\ run[r].pc = "create"
    /\ CanFault
    /\ faults' = faults + 1
    /\ run' = [run EXCEPT ![r] =
                 IF CreateErrReturns(run[r].op)
                 THEN Returned(@, "err")
                 ELSE [@ EXCEPT !.pc = "loop",
                                !.idx = FirstIdx(run[r].op, run[r].reg)]]
    /\ hist' = [hist EXCEPT ![r] = Failed(@, 0, "create", TRUE, FALSE)]
    /\ UNCHANGED <<variant, Migrations, db, prev, prev2, calls>>

\* The loop has no step left: return nil.
ReturnNil(r) ==
    /\ run[r].pc = "loop"
    /\ ~InRange(run[r].reg, run[r].idx)
    /\ run' = [run EXCEPT ![r] = Returned(@, "nil")]
    /\ UNCHANGED <<variant, Migrations, db, hist, prev, prev2, calls, faults>>

\* Rollback: the step has no Rollback function: continue.
RollbackNotProvided(r) ==
    /\ run[r].pc = "loop"
    /\ InRange(run[r].reg, run[r].idx)
    /\ run[r].op = "Rollback"
    /\ ~RollbackProvided(Cur(r))
    /\ run' = [run EXCEPT ![r] = [@ EXCEPT !.idx = NextIdx(run[r].op, @)]]
    /\ UNCHANGED <<variant, Migrations, db, hist, prev, prev2, calls, faults>>

\* db.Get(SELECT id FROM migrations WHERE id=$1) and the switch on its error.
Get(r) ==
    /\ run[r].pc = "loop"
    /\ InRange(run[r].reg, run[r].idx)
    /\ run[r].op = "Rollback" => RollbackProvided(Cur(r))
    /\ LET c == run[r]
           id == Cur(r).ID
           h == [hist[r] EXCEPT !.looked = Append(@, id)]
       IN  IF ~tableExists
           THEN /\ run' = [run EXCEPT ![r] = Returned(c, "err")]
                /\ hist' = [hist EXCEPT ![r] = Failed(h, c.idx, "lookup", FALSE, FALSE)]
           ELSE IF LookupDecision(c.op, id \in tracker) = "run"
           THEN /\ run' = [run EXCEPT ![r] = [c EXCEPT !.pc = "begin"]]
                /\ hist' = [hist EXCEPT ![r] =
                              [h EXCEPT !.pt = tracker, !.ps = schema,
                                        !.absent = IF id \in tracker THEN @
                                                   ELSE Append(@, id)]]
           ELSE /\ run' = [run EXCEPT ![r] = [c EXCEPT !.idx = NextIdx(c.op, c.idx)]]
                /\ hist' = [hist EXCEPT ![r] =
                              [h EXCEPT !.absent = IF id \in tracker THEN @
                                                   ELSE Append(@, id)]]
    /\ UNCHANGED <<variant, Migrations, db, prev, prev2, calls, faults>>

GetErr(r) ==
    /\ run[r].pc = "loop"
    /\ InRange(run[r].reg, run[r].idx)
    /\ run[r].op = "Rollback" => RollbackProvided(Cur(r))
    /\ CanFault
    /\ faults' = faults + 1
    /\ LET c == run[r]
           d == LookupErr(c.op)
       IN  run' = [run EXCEPT ![r] =
                     IF d = "abort" THEN Returned(c, "err")
                     ELSE IF d = "run" THEN [c EXCEPT !.pc = "begin"]
                     ELSE [c EXCEPT !.idx = NextIdx(c.op, c.idx)]]
    /\ hist' = [hist EXCEPT ![r] =
                  Failed([@ EXCEPT !.looked = Append(@, Cur(r).ID),
                                   !.pt = tracker, !.ps = schema],
                         run[r].idx, "lookup", TRUE, FALSE)]
    /\ UNCHANGED <<variant, Migrations, db, prev, prev2, calls>>

\* runMigration / runRollback: db.Beginx().
Beginx(r) ==
    /\ run[r].pc = "begin"
    /\ run' = [run EXCEPT ![r] = [@ EXCEPT !.pc = "exec",
                                          !.tx = [NoTx EXCEPT !.open = TRUE]]]
    /\ UNCHANGED <<variant, Migrations, db, hist, prev, prev2, calls, faults>>

BeginxErr(r) ==
    /\ run[r].pc = "begin"
    /\ CanFault
    /\ faults' = faults + 1
    /\ run' = [run EXCEPT ![r] = AfterRunErr(@)]
    /\ hist' = [hist EXCEPT ![r] = Failed(@, run[r].idx, "begin", TRUE, FALSE)]
    /\ UNCHANGED <<variant, Migrations, db, prev, prev2, calls>>

\* The bookkeeping statement: INSERT INTO / DELETE FROM migrations.  An INSERT
\* of a key that an open transaction of another runner has inserted waits for
\* that transaction to end.
Exec(r) ==
    /\ run[r].pc = "exec"
    /\ ~RowRejected(run[r].op, PendingRows(r), Cur(r).ID)
    /\ LET c == run[r]
           id == Cur(r).ID
       IN  IF RowRejected(c.op, tracker, id)
           THEN /\ run' = [run EXCEPT ![r] = AfterRunErr([c EXCEPT !.tx = TxRollback(@)])]
                /\ hist' = [hist EXCEPT ![r] = Failed(@, c.idx, "exec", FALSE, TRUE)]
                /\ UNCHANGED tracker
           ELSE IF ExecHandle(variant, c.op) = "db"
           THEN /\ tracker' = RowStatement(c.op, tracker, id)
                /\ run' = [run EXCEPT ![r] = [c EXCEPT !.pc = "action"]]
                /\ hist' = [hist EXCEPT ![r] = [@ EXCEPT !.rows = Append(@, id)]]
           ELSE /\ run' = [run EXCEPT ![r] = [c EXCEPT !.pc = "action", !.tx.row = TRUE]]
                /\ UNCHANGED <<tracker, hist>>
    /\ UNCHANGED <<variant, Migrations, tableExists, schema, prev, prev2, calls, faults>>

\* The INSERT does not wait for the other transaction: the database reports
\* the key as locked.
ExecBusy(r) ==
    /\ run[r].pc = "exec"
    /\ RowRejected(run[r].op, PendingRows(r), Cur(r).ID)
    /\ run' = [run EXCEPT ![r] = AfterRunErr([@ EXCEPT !.tx = TxRollback(@)])]
    /\ hist' = [hist EXCEPT ![r] = Failed(@, run[r].idx, "exec", FALSE, TRUE)]
    /\ UNCHANGED <<variant, Migrations, db, prev, prev2, calls, faults>>

ExecErr(r) ==
    /\ run[r].pc = "exec"
    /\ CanFault
    /\ faults' = faults + 1
    /\ run' = [run EXCEPT ![r] = AfterRunErr([@ EXCEPT !.tx = TxRollback(@)])]
    /\ hist' = [hist EXCEPT ![r] = Failed(@, run[r].idx, "exec", TRUE, FALSE)]
    /\ UNCHANGED <<variant, Migrations, db, prev, prev2, calls>>

\* m.Migrate(tx) / m.Rollback(tx): calling a nil function panics.
Action(r) ==
    /\ run[r].pc = "action"
    /\ LET c == run[r]
           id == Cur(r).ID
           h == [hist[r] EXCEPT !.ran = Append(@, id)]
       IN  IF ~StepFunc(c.op, Cur(r))
           THEN /\ run' = [run EXCEPT ![r] = Returned(c, "panic")]
                /\ hist' = [hist EXCEPT ![r] = Failed(@, c.idx, "nil", FALSE, FALSE)]
           ELSE IF StepRejected(c.op, schema, id)
           THEN /\ run' = [run EXCEPT ![r] = AfterRunErr([c EXCEPT !.tx = TxRollback(@)])]
                /\ hist' = [hist EXCEPT ![r] = Failed(h, c.idx, "action", FALSE, TRUE)]
           ELSE /\ run' = [run EXCEPT ![r] = [c EXCEPT !.pc = "commit", !.tx.act = TRUE]]
                /\ hist' = [hist EXCEPT ![r] = h]
    /\ UNCHANGED <<variant, Migrations, db, prev, prev2, calls, faults>>

ActionErr(r) ==
    /\ run[r].pc = "action"
    /\ StepFunc(run[r].op, Cur(r))
    /\ CanFault
    /\ faults' = faults + 1
    /\ run' = [run EXCEPT ![r] = AfterRunErr([@ EXCEPT !.tx = TxRollback(@)])]
    /\ hist' = [hist EXCEPT ![r] =
                  Failed([@ EXCEPT !.ran = Append(@, Cur(r).ID)],
                         run[r].idx, "action", TRUE, FALSE)]
    /\ UNCHANGED <<variant, Migrations, db, prev, prev2, calls>>

\* tx.Commit(): the pending writes become visible together.
Commit(r) ==
    /\ run[r].pc = "commit"
    /\ LET c == run[r]
           id == Cur(r).ID
       IN  /\ tracker' = CommitRows(c.op, c.tx, tracker, id)
           /\ schema' = CommitSchema(c.op, c.tx, schema, id)
           /\ run' = [run EXCEPT ![r] = AfterRunOk([c EXCEPT !.tx = NoTx])]
           /\ hist' = [hist EXCEPT ![r] =
                         [@ EXCEPT !.committed = Append(@, id),
                                   !.rows = IF c.tx.row THEN Append(@, id) ELSE @]]
    /\ UNCHANGED <<variant, Migrations, tableExists, prev, prev2, calls, faults>>

\* tx.Commit() fails: nothing of the transaction becomes visible.
CommitErr(r) ==
    /\ run[r].pc = "commit"
    /\ CanFault
    /\ faults' = faults + 1
    /\ run' = [run EXCEPT ![r] = AfterRunErr([@ EXCEPT !.tx = NoTx])]
    /\ hist' = [hist EXCEPT ![r] = Failed(@, run[r].idx, "commit", TRUE, FALSE)]
    /\ UNCHANGED <<variant, Migrations, db, prev, prev2, calls>>

-----------------------------------------------------------------------------
(* Specification: one runner, calls one after the other *)

Step(r) ==
    \/ createMigrationTable(r)
    \/ createMigrationTableErr(r)
    \/ ReturnNil(r)
    \/ RollbackNotProvided(r)
    \/ Get(r)
    \/ GetErr(r)
    \/ Beginx(r)
    \/ BeginxErr(r)
    \/ Exec(r)
    \/ ExecErr(r)
    \/ Action(r)
    \/ ActionErr(r)
    \/ Commit(r)
    \/ CommitErr(r)

Next ==
    \/ \E m \in StepsOf(variant) : AppendStep(m)
    \/ \E r \in SeqRunners, o \in {"Migrate", "Rollback"} : Call(r, o)
    \/ \E r \in SeqRunners : Step(r)

Spec == Init /\ [][Next]_vars

-----------------------------------------------------------------------------
(* Specification: one runner, and a caller that also drops applied steps *)

NextFrame ==
    \/ Next
    \/ DropStep

SpecFrame == Init /\ [][NextFrame]_vars

-----------------------------------------------------------------------------
(* Specification: two runners, each calling Migrate once on the same registry
   and the same database, their statements interleaved *)

\* The caller builds the registry before either runner starts.
BuildStep(m) ==
    /\ \A r \in Runners : run[r].op = "none"
    /\ AppendStep(m)

ConcCall(r) ==
    /\ run[r].op = "none"
    /\ Call(r, "Migrate")

MigrateStep(r) ==
    \/ createMigrationTable(r)
    \/ createMigrationTableErr(r)
    \/ ReturnNil(r)
    \/ Get(r)
    \/ GetErr(r)
    \/ Beginx(r)
    \/ BeginxErr(r)
    \/ Exec(r)
    \/ ExecBusy(r)
    \/ ExecErr(r)
    \/ Action(r)
    \/ ActionErr(r)
    \/ Commit(r)
    \/ CommitErr(r)

NextConc ==
    \/ \E m \in StepsOf(variant) : BuildStep(m)
    \/ \E r \in Runners : ConcCall(r)
    \/ \E r \in Runners : MigrateStep(r)

SpecConc == Init /\ [][NextConc]_vars

-----------------------------------------------------------------------------
(* Vocabulary of the properties *)

\* The latest call of the sequential runner and what it has done.
call == run["r1"]
log == hist["r1"]

Done == call.pc = "done"

SeqSet(q) == {q[k] : k \in DOMAIN q}
Count(q, x) == Cardinality({k \in DOMAIN q : q[k] = x})

\* The ids of the steps of reg at the indices in K.
IdsAt(reg, K) == {reg[k].ID : k \in K \cap DOMAIN reg}

AllBoth(reg) == \A k \in DOMAIN reg : reg[k].Migrate /\ reg[k].Rollback

\* The phases of runMigration / runRollback in which a step's run can fail.
RunPhases == {"begin", "exec", "action", "commit"}

\* The latest call is an Apply that follows a successful Apply of the same
\* registry.
SecondApply ==
    /\ call.op = "Migrate"
    /\ prev.op = "Migrate"
    /\ prev.ret = "nil"
    /\ prev.reg = call.reg

-----------------------------------------------------------------------------
(* C1 *)

\* C1, as stated (on the current variant, when no statement of the second call
\* fails for an outside reason): when Apply follows a successful Apply of the
\* same registry, the second call runs no apply action, returns success and
\* leaves tracker and schema unchanged, and over the two calls every step's
\* apply action ran exactly once.
C1_ExactlyOnce ==
    (variant = "current" /\ SecondApply /\ Done /\ ~log.faulted) =>
        /\ log.ran = <<>>
        /\ call.ret = "nil"
        /\ tracker = log.t0
        /\ schema = log.s0
        /\ \A id \in RegIds(call.reg) :
              Count(prev.ran, id) + Count(log.ran, id) = 1

\* C1, amended: throughout an Apply that follows a successful Apply of the same
\* registry no apply action runs and tracker and schema stay as they were; it
\* returns success unless a statement fails for an outside reason; over the
\* two calls a step's apply action ran once if its id was absent from the
\* tracker before the first call and not at all if it was present.
C1_Idempotent ==
    SecondApply =>
        /\ log.ran = <<>>
        /\ tracker = log.t0
        /\ schema = log.s0
        /\ (Done /\ ~log.faulted) => call.ret = "nil"
        /\ Done =>
              \A id \in RegIds(call.reg) :
                  Count(prev.ran, id) + Count(log.ran, id) =
                      (IF id \in prev.t0 THEN 0 ELSE 1)

C1_Witness ==
    /\ SecondApply
    /\ Done
    /\ call.ret = "nil"
    /\ Len(call.reg) = 2
    /\ Len(prev.ran) >= 1

-----------------------------------------------------------------------------
(* C2 *)

-----------------------------------------------------------------------------
(* C3 *)

\* C3: when the run of a step fails during Apply (begin, insert, the apply
\* action or commit) and Apply has returned the error, the tracker holds no
\* record of the step, none of its effects are present, and tracker and schema
\* are as they were before the step was attempted.
C3_FailedStepUnapplied ==
    (call.op = "Migrate" /\ Done /\ call.ret = "err" /\ log.phase \in RunPhases) =>
        /\ call.reg[log.failIdx].ID \notin tracker
        /\ call.reg[log.failIdx].ID \notin schema
        /\ tracker = log.pt
        /\ schema = log.ps

-----------------------------------------------------------------------------
(* C4 *)

\* C4: when the run of the step at index k fails during Apply, Apply has
\* returned an error at once, exactly the steps up to k were looked up and no
\* step after k was looked up or run, and every step committed earlier in the
\* call is still applied (record and effects present).
C4_AbortsOnFirstFailure ==
    (call.op = "Migrate" /\ log.phase \in RunPhases) =>
        /\ Done
        /\ call.ret = "err"
        /\ log.looked = [j \in 1..log.failIdx |-> call.reg[j].ID]
        /\ SeqSet(log.ran) \subseteq IdsAt(call.reg, 1..log.failIdx)
        /\ SeqSet(log.committed) \subseteq IdsAt(call.reg, 1..(log.failIdx - 1))
        /\ SeqSet(log.committed) \subseteq (tracker \cap schema)

C4_Witness ==
    /\ call.op = "Migrate"
    /\ Done
    /\ log.phase \in RunPhases
    /\ log.failIdx = 1
    /\ Len(call.reg) = 2

-----------------------------------------------------------------------------
(* C5 *)

\* The latest call is an Apply of [A, B] that follows a successful Apply of [A].
Incremental ==
    /\ call.op = "Migrate"
    /\ prev.op = "Migrate"
    /\ prev.ret = "nil"
    /\ Len(prev.reg) = 1
    /\ Len(call.reg) = 2
    /\ call.reg[1] = prev.reg[1]
    /\ call.reg[2].Migrate

\* C5: an Apply never runs a step whose id was in the tracker, and one that
\* returns success has run, once each, exactly the steps of the registry whose
\* ids were absent, and leaves all the registry's ids in the tracker.  After a
\* successful Apply of [A], an Apply of [A, B] in which no statement fails for
\* an outside reason skips A, runs B once, returns success and leaves both ids
\* in the tracker.
C5_Incremental ==
    /\ call.op = "Migrate" =>
          /\ SeqSet(log.ran) \cap log.t0 = {}
          /\ \A id \in Ids : Count(log.ran, id) <= 1
          /\ (Done /\ call.ret = "nil") =>
                /\ SeqSet(log.ran) = RegIds(call.reg) \ log.t0
                /\ tracker = log.t0 \cup RegIds(call.reg)
    /\ (Incremental /\ Done /\ ~log.faulted) =>
          /\ call.ret = "nil"
          /\ log.ran = <<call.reg[2].ID>>
          /\ {call.reg[1].ID, call.reg[2].ID} \subseteq tracker

C5_Witness ==
    /\ Incremental
    /\ Done
    /\ call.ret = "nil"
    /\ log.looked = <<call.reg[1].ID, call.reg[2].ID>>
    /\ log.ran = <<call.reg[2].ID>>

-----------------------------------------------------------------------------
(* C6 *)

\* The latest call is a successful Rollback that follows a successful Apply of
\* the same registry, all of whose steps have both actions.
ApplyThenRollback ==
    /\ call.op = "Rollback"
    /\ Done
    /\ call.ret = "nil"
    /\ prev.op = "Migrate"
    /\ prev.ret = "nil"
    /\ prev.reg = call.reg
    /\ AllBoth(call.reg)

\* C6, as stated: after a successful Apply and a successful Rollback of a
\* registry whose steps all have both actions, the schema equals the schema
\* before the Apply and the tracker holds none of the registry's ids.
C6_SchemaAsBeforeApply ==
    ApplyThenRollback =>
        /\ schema = prev.s0
        /\ tracker \cap RegIds(call.reg) = {}

\* C6, amended: after a successful Apply and a successful Rollback of such a
\* registry the tracker holds none of the registry's ids and the schema is the
\* schema before the Apply without the effects of the registry's steps; it
\* equals the schema before the Apply when none of the registry's steps was in
\* the tracker before the Apply.
C6_Reversible ==
    ApplyThenRollback =>
        /\ tracker \cap RegIds(call.reg) = {}
        /\ schema = prev.s0 \ RegIds(call.reg)
        /\ (prev.t0 \cap RegIds(call.reg) = {}) => schema = prev.s0

C6_Witness ==
    /\ ApplyThenRollback
    /\ Len(call.reg) = 2
    /\ Len(prev.ran) = 2
    /\ Len(log.ran) = 2

-----------------------------------------------------------------------------
(* C7 *)

\* The latest three calls are Apply, Rollback, Apply of one registry whose
\* steps all have both actions, and no statement of them failed for an outside
\* reason.
RoundTrip ==
    /\ call.op = "Migrate"
    /\ prev.op = "Rollback"
    /\ prev2.op = "Migrate"
    /\ prev.reg = call.reg
    /\ prev2.reg = call.reg
    /\ AllBoth(call.reg)
    /\ ~prev2.faulted /\ ~prev.faulted /\ ~log.faulted

\* C7: in Apply, Rollback, Apply of a registry whose steps all have both
\* actions every call succeeds, the second Apply meets no duplicate tracker row
\* and no effect already present, and it ends with the tracker and schema the
\* first Apply ended with (the tracker and schema a single Apply gives from
\* the starting state).
C7_RoundTrip ==
    RoundTrip =>
        /\ prev2.ret = "nil"
        /\ prev.ret = "nil"
        /\ ~log.dup
        /\ log.phase = "none"
        /\ Done =>
              /\ call.ret = "nil"
              /\ tracker = prev.t0
              /\ schema = prev.s0
              /\ tracker = prev2.t0 \cup RegIds(call.reg)
              /\ schema = prev2.s0 \cup RegIds(call.reg)

C7_Witness ==
    /\ RoundTrip
    /\ Done
    /\ Len(call.reg) = 2
    /\ Len(prev2.ran) = 2
    /\ Len(prev.ran) = 2
    /\ Len(log.ran) = 2

-----------------------------------------------------------------------------
(* C8 *)

\* C8: throughout a Rollback, a step without a reverse action is not looked
\* up, not run and not committed, is not where the call fails, and its tracker
\* record and effects are as they were when the call began; a Rollback that
\* returns success has gone on to look up every step that has a reverse
\* action.
C8_MissingReverseSkipped ==
    call.op = "Rollback" =>
        /\ \A k \in DOMAIN call.reg :
              ~call.reg[k].Rollback =>
                  /\ call.reg[k].ID \notin SeqSet(log.looked)
                  /\ call.reg[k].ID \notin SeqSet(log.ran)
                  /\ call.reg[k].ID \notin SeqSet(log.committed)
                  /\ log.failIdx # k
                  /\ call.reg[k].ID \in tracker <=> call.reg[k].ID \in log.t0
                  /\ call.reg[k].ID \in schema <=> call.reg[k].ID \in log.s0
        /\ (Done /\ call.ret = "nil") =>
              \A k \in DOMAIN call.reg :
                  call.reg[k].Rollback => call.reg[k].ID \in SeqSet(log.looked)

C8_Witness ==
    /\ call.op = "Rollback"
    /\ Done
    /\ call.ret = "nil"
    /\ Len(call.reg) = 2
    /\ ~call.reg[2].Rollback
    /\ call.reg[2].ID \in tracker
    /\ log.committed = <<call.reg[1].ID>>

-----------------------------------------------------------------------------
(* C9 *)

\* C9: when the run of the step at index k fails during Rollback (begin,
\* delete, the reverse action or commit), Rollback has returned an error at
\* once, the step's tracker record and effects are still present, no step
\* before k in declared order was looked up or reversed, and the steps
\* reversed earlier in the call stay reversed.
C9_RollbackFailureKeepsStep ==
    (call.op = "Rollback" /\ log.phase \in RunPhases) =>
        /\ Done
        /\ call.ret = "err"
        /\ call.reg[log.failIdx].ID \in tracker
        /\ call.reg[log.failIdx].ID \in schema
        /\ SeqSet(log.looked) \subseteq IdsAt(call.reg, log.failIdx..Len(call.reg))
        /\ SeqSet(log.ran) \subseteq IdsAt(call.reg, log.failIdx..Len(call.reg))
        /\ SeqSet(log.committed) \subseteq IdsAt(call.reg, (log.failIdx + 1)..Len(call.reg))
        /\ SeqSet(log.committed) \cap (tracker \cup schema) = {}

C9_Witness ==
    /\ call.op = "Rollback"
    /\ Done
    /\ Len(call.reg) = 2
    /\ log.phase = "action"
    /\ log.failIdx = 1
    /\ log.committed = <<call.reg[2].ID>>

-----------------------------------------------------------------------------
(* C10 *)

\* C10: whenever Apply has returned success the tracker table exists and the
\* id of every step of the registry is in the tracker.
C10_SuccessMeansAllApplied ==
    (call.op = "Migrate" /\ Done /\ call.ret = "nil") =>
        /\ tableExists
        /\ RegIds(call.reg) \subseteq tracker

C10_Witness ==
    /\ call.op = "Migrate"
    /\ Done
    /\ call.ret = "nil"
    /\ Len(call.reg) = 2
    /\ Len(log.ran) = 1
    /\ Len(log.looked) = 2

-----------------------------------------------------------------------------
(* C11 *)

\* C11: whenever Rollback has returned success the tracker table exists and
\* no step of the registry that has a reverse action has its id in the
\* tracker.
C11_RollbackSuccessMeansAllReversed ==
    (call.op = "Rollback" /\ Done /\ call.ret = "nil") =>
        /\ tableExists
        /\ \A k \in DOMAIN call.reg :
              call.reg[k].Rollback => call.reg[k].ID \notin tracker

C11_Witness ==
    /\ call.op = "Rollback"
    /\ Done
    /\ call.ret = "nil"
    /\ Len(call.reg) = 2
    /\ call.reg[1].Rollback /\ call.reg[2].Rollback
    /\ Len(log.committed) = 1
    /\ Len(log.looked) = 2

-----------------------------------------------------------------------------
(* C12 *)

\* The index in the declared registry d of the step named id.
IndexOf(d, id) == CHOOSE k \in DOMAIN d : d[k].ID = id

\* C12: Migrate looks the steps up in the declared order of the registry,
\* whatever the order of their ids: the ids looked up so far are those of the
\* first declared steps, in that order, and when the apply action of step j
\* has been started every step i < j has been looked up and was either found
\* in the tracker (skipped) or run and committed.
C12_ApplyInDeclaredOrder ==
    call.op = "Migrate" =>
        LET d == log.decl IN
        /\ Len(log.looked) <= Len(d)
        /\ \A k \in DOMAIN log.looked : log.looked[k] = d[k].ID
        /\ \A j \in DOMAIN d :
              d[j].ID \in SeqSet(log.ran) =>
                 \A i \in 1..(j - 1) :
                     /\ d[i].ID \in SeqSet(log.looked)
                     /\ \/ d[i].ID \in log.t0
                        \/ d[i].ID \in SeqSet(log.committed)

C12_Witness ==
    /\ call.op = "Migrate"
    /\ Done
    /\ call.ret = "nil"
    /\ Len(log.decl) = 2
    /\ log.decl[1].ID > log.decl[2].ID
    /\ log.ran = <<log.decl[1].ID, log.decl[2].ID>>
    /\ log.committed = log.ran

-----------------------------------------------------------------------------
(* C13 *)

\* C13: Rollback walks the registry in reverse declared order: the ids are
\* looked up in decreasing order of their declared index, and when step i has
\* been looked up or its reverse action started, every step j > i has no
\* reverse action, or was looked up and was either absent from the tracker
\* (skipped) or reversed and committed.
C13_RollbackInReverseOrder ==
    call.op = "Rollback" =>
        LET d == log.decl IN
        /\ SeqSet(log.looked) \subseteq RegIds(d)
        /\ \A p, q \in DOMAIN log.looked :
              p < q => IndexOf(d, log.looked[p]) > IndexOf(d, log.looked[q])
        /\ \A i \in DOMAIN d :
              d[i].ID \in SeqSet(log.looked) \cup SeqSet(log.ran) =>
                 \A j \in (i + 1)..Len(d) :
                     \/ ~d[j].Rollback
                     \/ /\ d[j].ID \in SeqSet(log.looked)
                        /\ \/ d[j].ID \notin log.t0
                           \/ d[j].ID \in SeqSet(log.committed)

C13_Witness ==
    /\ call.op = "Rollback"
    /\ Done
    /\ call.ret = "nil"
    /\ Len(log.decl) = 2
    /\ log.decl[1].ID < log.decl[2].ID
    /\ log.ran = <<log.decl[2].ID, log.decl[1].ID>>
    /\ log.committed = log.ran

-----------------------------------------------------------------------------
(* C14 *)

\* C14: in Migrate and in Rollback the create-if-absent statement comes before
\* every access to the tracker: a lookup, a transaction or a step's action
\* exists in a call only after the call created the table; and when the
\* statement fails the call has returned an error with no step looked up, no
\* transaction begun, no action run, tracker and step effects as at the start
\* of the call.
C14_TableBeforeAnyAccess ==
    /\ (\/ log.looked # <<>>
        \/ log.ran # <<>>
        \/ log.committed # <<>>
        \/ call.tx.open
        \/ call.pc \in RunPhases \cup {"loop"}) => (log.created /\ tableExists)
    /\ log.phase = "create" =>
          /\ Done
          /\ call.ret = "err"
          /\ ~log.created
          /\ log.looked = <<>>
          /\ log.ran = <<>>
          /\ log.committed = <<>>
          /\ ~call.tx.open
          /\ tracker = log.t0
          /\ schema = log.s0

C14_Witness ==
    /\ log.phase = "create"
    /\ Done
    /\ call.ret = "err"
    /\ call.reg # <<>>
    /\ \E k \in DOMAIN call.reg :
          LookupDecision(call.op, call.reg[k].ID \in tracker) = "run"

-----------------------------------------------------------------------------
(* C15 *)

\* C15: when the lookup of a step fails with an error other than "no rows",
\* the call has returned an error at that step: the step was the last one
\* looked up, its action was not run, no transaction was begun or committed
\* for it, and the loop went no further.
C15_LookupErrorAborts ==
    log.phase = "lookup" =>
        /\ Done
        /\ call.ret = "err"
        /\ call.idx = log.failIdx
        /\ ~call.tx.open
        /\ LET id == call.reg[log.failIdx].ID IN
           /\ log.looked # <<>>
           /\ log.looked[Len(log.looked)] = id
           /\ Count(log.looked, id) = 1
           /\ id \notin SeqSet(log.ran)
           /\ id \notin SeqSet(log.committed)
           /\ (id \in tracker) = (id \in log.pt)
           /\ (id \in schema) = (id \in log.ps)

C15_Witness ==
    /\ log.phase = "lookup"
    /\ log.faulted
    /\ Done
    /\ Len(call.reg) = 2
    /\ call.idx = FirstIdx(call.op, call.reg)
    /\ \A k \in DOMAIN call.reg :
          /\ StepFunc(call.op, call.reg[k])
          /\ LookupDecision(call.op, call.reg[k].ID \in tracker) = "run"

-----------------------------------------------------------------------------
(* C17 *)

\* C17: a call has at most one transaction open, and every transaction begun
\* for a step is committed or rolled back before the next lookup begins and
\* before the call returns: no transaction is open when the call is at the
\* table check, at the loop head, about to begin a transaction, or has
\* returned nil or an error.
C17_TransactionsClosed ==
    (\/ call.pc \in {"create", "loop", "begin"}
     \/ (Done /\ call.ret \in {"nil", "err"})) => ~call.tx.open

C17_Witness ==
    /\ Done
    /\ call.ret = "err"
    /\ log.phase = "action"
    /\ Len(log.committed) = 1
    /\ Len(log.ran) = 2
    /\ ~call.tx.open

-----------------------------------------------------------------------------
(* C18 *)

\* C18: a step built with an empty text for a direction has no function for
\* that direction, no call invokes a function that is absent, and every call
\* that is over has returned nil or an error.
C18_NoAbsentActionInvoked ==
    /\ \A id \in Ids, q \in Queries :
          /\ ~SqlxQueryMigration(id, "", q).Migrate
          /\ ~SqlxQueryMigration(id, q, "").Rollback
    /\ log.phase # "nil"
    /\ Done => call.ret \in {"nil", "err"}

-----------------------------------------------------------------------------
(* C19 *)

\* C19: Migrate removes no record of the tracker and Rollback adds none, and
\* neither changes the record of an id that names no step of the registry of
\* the call: records of steps the caller has dropped from the registry stay.
C19_TrackerFrame ==
    /\ call.op = "Migrate" => log.t0 \subseteq tracker
    /\ call.op = "Rollback" => tracker \subseteq log.t0
    /\ \A id \in Ids \ RegIds(call.reg) : (id \in tracker) = (id \in log.t0)

C19_Witness ==
    /\ call.op = "Rollback"
    /\ Done
    /\ call.ret = "nil"
    /\ log.committed # <<>>
    /\ tracker # {}
    /\ tracker \cap RegIds(call.reg) = {}

-----------------------------------------------------------------------------
(* C16 *)

\* Both runners have looked the step named id up and found it absent.
BothFoundAbsent(id) ==
    \A r \in Runners : run[r].op = "Migrate" /\ id \in SeqSet(hist[r].absent)

\* C16: with two Migrate calls interleaved on one database and one registry,
\* the effects of each step are committed at most once and the tracker gets
\* the record of each id at most once; when both runners found an id absent
\* and one of them committed the step, the other has not inserted the record
\* and is either still before its INSERT or has returned an error for that
\* step with its transaction closed; and when no statement failed for another
\* reason, one of the two does commit the step and the other is rejected.
C16_AtMostOnceUnderRace ==
    /\ tracker = UNION {SeqSet(hist[r].rows) : r \in Runners}
    /\ \A id \in Ids :
          /\ Count(hist["r1"].committed, id) + Count(hist["r2"].committed, id) <= 1
          /\ Count(hist["r1"].rows, id) + Count(hist["r2"].rows, id) <= 1
          /\ \A r \in Runners, q \in Runners :
                (/\ r # q
                 /\ BothFoundAbsent(id)
                 /\ id \in SeqSet(hist[r].committed)) =>
                    /\ id \notin SeqSet(hist[q].committed)
                    /\ id \notin SeqSet(hist[q].rows)
                    /\ \/ /\ run[q].pc \in {"begin", "exec"}
                          /\ Cur(q).ID = id
                       \/ /\ run[q].pc = "done"
                          /\ run[q].ret = "err"
                          /\ hist[q].phase \in RunPhases
                          /\ run[q].reg[hist[q].failIdx].ID = id
                          /\ ~run[q].tx.open
          /\ (/\ BothFoundAbsent(id)
              /\ \A r \in Runners : /\ run[r].pc = "done"
                                    /\ ~hist[r].faulted
                                    /\ hist[r].phase # "nil") =>
                \E r \in Runners, q \in Runners :
                    /\ r # q
                    /\ id \in SeqSet(hist[r].committed)
                    /\ hist[q].dup
                    /\ run[q].ret = "err"

C16_Witness ==
    \E id \in Ids :
        /\ BothFoundAbsent(id)
        /\ run["r1"].reg = run["r2"].reg
        /\ id \in SeqSet(hist["r1"].committed)
        /\ run["r1"].pc = "done"
        /\ run["r2"].pc = "done"
        /\ run["r2"].ret = "err"
        /\ hist["r2"].dup
        /\ id \in tracker

====
